---- MODULE Spec2Model ----
(***************************************************************************)
(* Model of the LINE reply-suggestion bot: the webhook dispatcher          *)
(* (server.js: app.post("/webhook"), handleEvent) and the suggestion       *)
(* pipeline (ai.js: makeSuggestions).                                      *)
(*                                                                         *)
(* JavaScript values are records [t |-> type, v |-> printed form].  The    *)
(* text payload of the generative model is a sequence of lexical tokens:   *)
(* braces, colon, comma, JSON literals and a prose word.                   *)
(***************************************************************************)
EXTENDS Integers, Sequences, FiniteSets, TLC

\* ------------------------------------------------------------------ bounds
MaxRawLen == 4
MaxEvents == 2

\* ------------------------------------------------------- JavaScript values
Keys == {"casual", "polite", "brief"}

Undefined == [t |-> "undefined", v |-> "undefined"]
JSString(s) == [t |-> "string", v |-> s]
ObjectValue == [t |-> "object", v |-> "{}"]

\* ToBoolean, as applied by the || operator
Truthy(val) ==
    CASE val.t = "string"    -> val.v # ""
      [] val.t = "number"    -> val.v # "0"
      [] val.t = "boolean"   -> val.v = "true"
      [] val.t = "array"     -> TRUE
      [] val.t = "object"    -> TRUE
      [] OTHER               -> FALSE

\* a || b
Or(a, b) == IF Truthy(a) THEN a ELSE b

\* ------------------------------------------------------------------ tokens
LBrace == "{"
RBrace == "}"
Colon == ":"
Comma == ","
Prose == "w"

StringLiterals ==
    {"\"casual\"", "\"polite\"", "\"brief\"", "\"concise\"", "\"A\"", "\"B\"", "\"\""}
OtherLiterals == {"5", "0", "true", "false", "null", "[]"}
Literals == StringLiterals \cup OtherLiterals

\* the JavaScript value a JSON literal denotes
LiteralValue(tok) ==
    CASE tok = "\"casual\""  -> JSString("casual")
      [] tok = "\"polite\""  -> JSString("polite")
      [] tok = "\"brief\""   -> JSString("brief")
      [] tok = "\"concise\"" -> JSString("concise")
      [] tok = "\"A\""       -> JSString("A")
      [] tok = "\"B\""       -> JSString("B")
      [] tok = "\"\""        -> JSString("")
      [] tok = "5"           -> [t |-> "number", v |-> "5"]
      [] tok = "0"           -> [t |-> "number", v |-> "0"]
      [] tok = "true"        -> [t |-> "boolean", v |-> "true"]
      [] tok = "false"       -> [t |-> "boolean", v |-> "false"]
      [] tok = "null"        -> [t |-> "null", v |-> "null"]
      [] tok = "[]"          -> [t |-> "array", v |-> "[]"]

\* ------------------------------------------------------------ the pipeline
\* res.data?.candidates?.[0]?.content?.parts?.[0]?.text ?? ""
PathLen == 6
EmptyText == [t |-> "string", toks |-> <<>>]
\* variant: the nullish default is an empty object text instead of ""
ExtractTextDefaultObject(res) ==
    IF res.segs < PathLen THEN [t |-> "string", toks |-> <<LBrace, RBrace>>]
    ELSE IF res.leaf.t \in {"undefined", "null"} THEN [t |-> "string", toks |-> <<LBrace, RBrace>>]
    ELSE res.leaf

ExtractText(res) ==
    IF res.segs < PathLen THEN EmptyText
    ELSE IF res.leaf.t \in {"undefined", "null"} THEN EmptyText
    ELSE res.leaf

\* variant: lazy quantifier, /\{[\s\S]*?\}/, stops at the first "}"
RegexMatchLazy(toks) ==
    LET opens == {i \in 1..Len(toks) : toks[i] = LBrace}
        first == CHOOSE i \in opens : \A j \in opens : i <= j
        closes == {j \in 1..Len(toks) : toks[j] = RBrace /\ j > first}
        nearest == CHOOSE j \in closes : \A k \in closes : j <= k
    IN  IF opens = {} THEN [found |-> FALSE, block |-> <<>>]
        ELSE IF closes = {} THEN [found |-> FALSE, block |-> <<>>]
        ELSE [found |-> TRUE, block |-> SubSeq(toks, first, nearest)]

\* variant: anchored pattern, /^\{[\s\S]*\}$/, the block must be the whole text
RegexMatchAnchored(toks) ==
    IF Len(toks) >= 2 /\ toks[1] = LBrace /\ toks[Len(toks)] = RBrace
    THEN [found |-> TRUE, block |-> toks]
    ELSE [found |-> FALSE, block |-> <<>>]

\* text.match(/\{[\s\S]*\}/): leftmost "{", then greedily to the last "}"
RegexMatch(toks) ==
    LET opens == {i \in 1..Len(toks) : toks[i] = LBrace}
        first == CHOOSE i \in opens : \A j \in opens : i <= j
        closes == {j \in 1..Len(toks) : toks[j] = RBrace /\ j > first}
        last == CHOOSE j \in closes : \A k \in closes : k <= j
    IN  IF opens = {} THEN [found |-> FALSE, block |-> <<>>]
        ELSE IF closes = {} THEN [found |-> FALSE, block |-> <<>>]
        ELSE [found |-> TRUE, block |-> SubSeq(toks, first, last)]

\* JSON.parse on a text that begins with "{"
EmptyObject == [k \in Keys |-> Undefined]
ParseFail == [ok |-> FALSE, pos |-> 0, val |-> Undefined, obj |-> EmptyObject]

RECURSIVE ParseValue(_, _)
RECURSIVE ParseObject(_, _)
RECURSIVE ParseMembers(_, _, _)

ParseValue(toks, p) ==
    IF p > Len(toks) THEN ParseFail
    ELSE IF toks[p] \in Literals
    THEN [ok |-> TRUE, pos |-> p + 1, val |-> LiteralValue(toks[p]), obj |-> EmptyObject]
    ELSE IF toks[p] = LBrace
    THEN LET r == ParseObject(toks, p)
         IN  IF r.ok
             THEN [ok |-> TRUE, pos |-> r.pos, val |-> ObjectValue, obj |-> EmptyObject]
             ELSE ParseFail
    ELSE ParseFail

ParseObject(toks, p) ==
    IF p > Len(toks) \/ toks[p] # LBrace THEN ParseFail
    ELSE IF p + 1 <= Len(toks) /\ toks[p + 1] = RBrace
    THEN [ok |-> TRUE, pos |-> p + 2, val |-> ObjectValue, obj |-> EmptyObject]
    ELSE ParseMembers(toks, p + 1, EmptyObject)

ParseMembers(toks, p, obj) ==
    IF p + 1 > Len(toks) THEN ParseFail
    ELSE IF toks[p] \notin StringLiterals \/ toks[p + 1] # Colon THEN ParseFail
    ELSE LET r == ParseValue(toks, p + 2)
             k == LiteralValue(toks[p]).v
             obj2 == IF k \in Keys THEN [obj EXCEPT ![k] = r.val] ELSE obj
         IN  IF ~r.ok \/ r.pos > Len(toks) THEN ParseFail
             ELSE IF toks[r.pos] = RBrace
             THEN [ok |-> TRUE, pos |-> r.pos + 1, val |-> ObjectValue, obj |-> obj2]
             ELSE IF toks[r.pos] = Comma THEN ParseMembers(toks, r.pos + 1, obj2)
             ELSE ParseFail

JSONParse(toks) ==
    LET r == ParseObject(toks, 1)
    IN  IF r.ok /\ r.pos = Len(toks) + 1
        THEN [ok |-> TRUE, obj |-> r.obj]
        ELSE [ok |-> FALSE, obj |-> EmptyObject]

\* the canned sentences
FallbackCasual == JSString("FALLBACK_CASUAL")
FallbackPolite == JSString("FALLBACK_POLITE")
FallbackBrief == JSString("FALLBACK_BRIEF")
FailedRetry == JSString("GENERATION_FAILED_PLEASE_RETRY")

PerFieldFallback(k) ==
    CASE k = "casual" -> FallbackCasual
      [] k = "polite" -> FallbackPolite
      [] k = "brief"  -> FallbackBrief

\* variant: a missing polite falls back on the casual draft
BuildResultCross(parsed) ==
    [casual |-> Or(parsed["casual"], FallbackCasual),
     polite |-> Or(parsed["polite"], Or(parsed["casual"], FallbackPolite)),
     brief  |-> Or(parsed["brief"], FallbackBrief)]

\* the object literal of the return statement after a successful parse
BuildResult(parsed) ==
    [casual |-> Or(parsed["casual"], FallbackCasual),
     polite |-> Or(parsed["polite"], FallbackPolite),
     brief  |-> Or(parsed["brief"], FallbackBrief)]

\* variant: the catch block returns the per-field sentences
FailureResultPerField ==
    [casual |-> FallbackCasual, polite |-> FallbackPolite, brief |-> FallbackBrief]

\* the object literal returned by the catch block
FailureResult == [casual |-> FailedRetry, polite |-> FailedRetry, brief |-> FailedRetry]

NoValue == [casual |-> Undefined, polite |-> Undefined, brief |-> Undefined]
Throw(at) == [completion |-> "throw", value |-> NoValue, threwAt |-> at]
Return(val) == [completion |-> "return", value |-> val, threwAt |-> "none"]
NotSettled == [completion |-> "none", value |-> NoValue, threwAt |-> "none"]

\* axios.post: rejects on a network error or a status outside 2xx
AxiosPost(o) ==
    IF o.kind = "ok"
    THEN [state |-> "fulfilled", res |-> [segs |-> o.segs, leaf |-> o.leaf]]
    ELSE [state |-> "rejected", res |-> [segs |-> 0, leaf |-> [t |-> "undefined", toks |-> <<>>]]]

\* the body of the try block from the await onwards
TryBody(settled) ==
    IF settled.state = "rejected" THEN Throw("post")
    ELSE LET text == ExtractText(settled.res)
         IN  IF text.t # "string" THEN Throw("match")
             ELSE LET m == RegexMatch(text.toks)
                  IN  IF ~m.found THEN Throw("nomatch")
                      ELSE LET parsed == JSONParse(m.block)
                           IN  IF ~parsed.ok THEN Throw("parse")
                               ELSE Return(BuildResult(parsed.obj))

\* variant: no try/catch around the body, as in the earlier draft of ai.js
MakeSuggestionsNoCatch(settled) == TryBody(settled)

\* try { ... } catch (err) { return failure record }
MakeSuggestionsAfterAwait(settled) ==
    LET b == TryBody(settled)
    IN  IF b.completion = "throw"
        THEN [completion |-> "return", value |-> FailureResult, threwAt |-> b.threwAt]
        ELSE b

\* -------------------------------------------------------- the dispatcher
\* the prompt template with ${userMessage} interpolated, and the request body
BuildPrompt(userMessage) ==
    [contents |-> [role |-> "user", template |-> "reply_styles_json", input |-> userMessage],
     temperature |-> "0.7"]

IsTextEvent(e) == e.type = "message" /\ e.mtype = "text"

\* `${x}` : ToString of a JavaScript value
TemplateString(val) ==
    CASE val.t = "array"  -> JSString("")
      [] val.t = "object" -> JSString("[object Object]")
      [] OTHER            -> JSString(val.v)

\* the three texts handleEvent puts into the flex message
ShortFailed == JSString("GENERATION_FAILED")
FlexTexts(suggestions) ==
    [casual |-> TemplateString(Or(suggestions.casual, ShortFailed)),
     polite |-> TemplateString(Or(suggestions.polite, ShortFailed)),
     brief  |-> TemplateString(Or(suggestions.brief, ShortFailed))]
NoReply == [casual |-> Undefined, polite |-> Undefined, brief |-> Undefined]

\* ------------------------------------------------- inputs: webhook events
Messages == {"m1", "m2"}
TextEvents == {[type |-> "message", mtype |-> "text", text |-> m] : m \in Messages}
OtherEvents ==
    {[type |-> "message", mtype |-> "image", text |-> "-"],
     [type |-> "follow", mtype |-> "-", text |-> "-"]}

\* ------------------------------- inputs: what the endpoint answers a call
Absent == "absent"
NestedObject == "{}"
ValueChoices == {"\"A\"", "\"B\"", "\"\"", "5", "0", "null", "true", "[]", NestedObject}
Choices == [Keys -> ValueChoices \cup {Absent}]
NoChoice == [k \in Keys |-> Absent]

KeyLiteral(k) ==
    CASE k = "casual" -> "\"casual\""
      [] k = "polite" -> "\"polite\""
      [] k = "brief"  -> "\"brief\""

ValueTokens(c) == IF c = NestedObject THEN <<LBrace, RBrace>> ELSE <<c>>

\* the value the generative model meant for a key
ChoiceValue(c) ==
    IF c = Absent THEN Undefined
    ELSE IF c = NestedObject THEN ObjectValue
    ELSE LiteralValue(c)

KeyOrder == <<"casual", "polite", "brief">>

RECURSIVE Members(_, _, _, _)
Members(choice, rename, n, first) ==
    IF n > Len(KeyOrder) THEN <<>>
    ELSE LET k == KeyOrder[n]
             lit == IF rename /\ k = "brief" THEN "\"concise\"" ELSE KeyLiteral(k)
         IN  IF choice[k] = Absent THEN Members(choice, rename, n + 1, first)
             ELSE (IF first THEN <<>> ELSE <<Comma>>)
                    \o <<lit, Colon>> \o ValueTokens(choice[k])
                    \o Members(choice, rename, n + 1, FALSE)

Block(choice, rename) == <<LBrace>> \o Members(choice, rename, 1, TRUE) \o <<RBrace>>

Shapes == {"clean", "prose", "truncated", "two_blocks", "renamed"}
Payload(choice, shape) ==
    CASE shape = "clean"      -> Block(choice, FALSE)
      [] shape = "prose"      -> <<Prose>> \o Block(choice, FALSE) \o <<Prose>>
      [] shape = "truncated"  -> SubSeq(Block(choice, FALSE), 1, Len(Block(choice, FALSE)) - 1)
      [] shape = "two_blocks" -> Block(choice, FALSE) \o <<Prose>> \o Block(choice, FALSE)
      [] shape = "renamed"    -> Block(choice, TRUE)

TextLeaf(toks) == [t |-> "string", toks |-> toks]
OkOutcome(segs, leaf, shape, choice) ==
    [kind |-> "ok", segs |-> segs, leaf |-> leaf, shape |-> shape, choice |-> choice]
ErrOutcome(kind) ==
    [kind |-> kind, segs |-> 0, leaf |-> [t |-> "undefined", toks |-> <<>>],
     shape |-> "none", choice |-> NoChoice]

RejectOutcomes == {ErrOutcome("network_error"), ErrOutcome("http_error")}
\* envelopes whose path to the text breaks early, or whose text is no string
EnvelopeOutcomes ==
    {OkOutcome(n, [t |-> "undefined", toks |-> <<>>], "none", NoChoice) : n \in 0..(PathLen - 1)}
    \cup {OkOutcome(PathLen, [t |-> ty, toks |-> <<>>], "none", NoChoice) :
            ty \in {"undefined", "null", "number", "array"}}
RawAlphabet == {LBrace, RBrace, Colon, Comma, Prose, "\"casual\"", "\"A\""}
RawTexts == UNION {[1..n -> RawAlphabet] : n \in 0..MaxRawLen}
RawOutcomes == {OkOutcome(PathLen, TextLeaf(toks), "raw", NoChoice) : toks \in RawTexts}
StructuredOutcomes ==
    {OkOutcome(PathLen, TextLeaf(Payload(c, sh)), sh, c) : c \in Choices, sh \in Shapes}

Outcomes == RejectOutcomes \cup EnvelopeOutcomes \cup RawOutcomes \cup StructuredOutcomes

AllA == [k \in Keys |-> IF k = "polite" THEN "\"B\"" ELSE "\"A\""]
BatchOutcomes ==
    {ErrOutcome("network_error"),
     OkOutcome(2, [t |-> "undefined", toks |-> <<>>], "none", NoChoice),
     OkOutcome(PathLen, TextLeaf(<<Prose>>), "raw", NoChoice),
     OkOutcome(PathLen, TextLeaf(Payload(AllA, "prose")), "prose", AllA),
     OkOutcome(PathLen, TextLeaf(Payload([AllA EXCEPT !["polite"] = Absent], "clean")),
               "clean", [AllA EXCEPT !["polite"] = Absent]),
     OkOutcome(PathLen, TextLeaf(Payload([AllA EXCEPT !["casual"] = "5"], "clean")),
               "clean", [AllA EXCEPT !["casual"] = "5"]),
     OkOutcome(PathLen, TextLeaf(Payload(AllA, "two_blocks")), "two_blocks", AllA)}

\* ------------------------------------------------------------------- state
VARIABLES
    events,    \* req.body.events of the webhook delivery
    upstream,  \* what the generative endpoint answers the call of event i
    http,      \* the webhook request: listening, handling, 200, unhandled
    pc,        \* position of handleEvent(events[i])
    outbox,    \* the axios.post requests issued by makeSuggestions for event i
    result,    \* completion of makeSuggestions for event i
    replies,   \* texts passed to client.replyMessage for event i
    arrivals   \* event indices in the order their model responses arrived

vars == <<events, upstream, http, pc, outbox, result, replies, arrivals>>

Req == DOMAIN events

InitRest ==
    /\ http = "listening"
    /\ pc = [i \in DOMAIN events |-> "pending"]
    /\ outbox = [i \in DOMAIN events |-> <<>>]
    /\ result = [i \in DOMAIN events |-> NotSettled]
    /\ replies = [i \in DOMAIN events |-> NoReply]
    /\ arrivals = <<>>

\* one delivery carrying one event; the endpoint may answer anything
Init ==
    /\ events \in {<<e>> : e \in TextEvents \cup OtherEvents}
    /\ upstream \in {<<o>> : o \in Outcomes}
    /\ (~IsTextEvent(events[1]) => upstream[1] = ErrOutcome("network_error"))
    /\ InitRest

\* one delivery carrying a batch of events
InitBatch ==
    /\ events \in UNION {[1..n -> TextEvents \cup OtherEvents] : n \in 0..MaxEvents}
    /\ upstream \in [DOMAIN events -> BatchOutcomes]
    /\ \A i \in DOMAIN events :
          ~IsTextEvent(events[i]) => upstream[i] = ErrOutcome("network_error")
    /\ InitRest

\* ----------------------------------------------------------------- actions
\* app.post("/webhook"): events.map(handleEvent) runs every handleEvent up to
\* its first await, i.e. up to the axios.post inside makeSuggestions
ReceiveWebhook ==
    /\ http = "listening"
    /\ http' = "handling"
    /\ pc' = [i \in Req |-> IF IsTextEvent(events[i]) THEN "awaiting" ELSE "ignored"]
    /\ outbox' = [i \in Req |->
                    IF IsTextEvent(events[i]) THEN <<BuildPrompt(events[i].text)>> ELSE <<>>]
    /\ UNCHANGED <<events, upstream, result, replies, arrivals>>

\* variant: the catch block posts once more after a rejected call
ResponseArrivesRetry(i) ==
    /\ pc[i] = "awaiting"
    /\ LET settled == AxiosPost(upstream[i])
           r == MakeSuggestionsAfterAwait(settled)
       IN  IF settled.state = "rejected" /\ Len(outbox[i]) < 2
           THEN /\ outbox' = [outbox EXCEPT ![i] = Append(@, BuildPrompt(events[i].text))]
                /\ UNCHANGED <<result, pc, replies, arrivals>>
           ELSE /\ result' = [result EXCEPT ![i] = r]
                /\ pc' = [pc EXCEPT ![i] = "replying"]
                /\ replies' = [replies EXCEPT ![i] = FlexTexts(r.value)]
                /\ arrivals' = Append(arrivals, i)
                /\ UNCHANGED outbox
    /\ UNCHANGED <<events, upstream, http>>

\* variant: a module-level cache keeps the first response of the process
ResponseArrivesMemo(i) ==
    /\ pc[i] = "awaiting"
    /\ LET src == IF arrivals = <<>> THEN i ELSE arrivals[1]
           r == MakeSuggestionsAfterAwait(AxiosPost(upstream[src]))
       IN  /\ result' = [result EXCEPT ![i] = r]
           /\ pc' = [pc EXCEPT ![i] = "replying"]
           /\ replies' = [replies EXCEPT ![i] = FlexTexts(r.value)]
    /\ arrivals' = Append(arrivals, i)
    /\ UNCHANGED <<events, upstream, http, outbox>>

\* the axios.post of event i settles: the rest of makeSuggestions runs, then
\* handleEvent up to its await on client.replyMessage
ResponseArrives(i) ==
    /\ pc[i] = "awaiting"
    /\ LET r == MakeSuggestionsAfterAwait(AxiosPost(upstream[i]))
       IN  /\ result' = [result EXCEPT ![i] = r]
           /\ IF r.completion = "return"
              THEN /\ pc' = [pc EXCEPT ![i] = "replying"]
                   /\ replies' = [replies EXCEPT ![i] = FlexTexts(r.value)]
              ELSE /\ pc' = [pc EXCEPT ![i] = "failed"]
                   /\ UNCHANGED replies
    /\ arrivals' = Append(arrivals, i)
    /\ UNCHANGED <<events, upstream, http, outbox>>

\* client.replyMessage settles
ReplyCompletes(i) ==
    /\ pc[i] = "replying"
    /\ \E ok \in BOOLEAN : pc' = [pc EXCEPT ![i] = IF ok THEN "done" ELSE "failed"]
    /\ UNCHANGED <<events, upstream, http, outbox, result, replies, arrivals>>

\* Promise.all fulfils: res.status(200).end()
RespondOK ==
    /\ http = "handling"
    /\ \A i \in Req : pc[i] \in {"done", "ignored"}
    /\ http' = "200"
    /\ UNCHANGED <<events, upstream, pc, outbox, result, replies, arrivals>>

\* Promise.all rejects with the first rejected handleEvent
HandlerRejects ==
    /\ http = "handling"
    /\ \E i \in Req : pc[i] = "failed"
    /\ http' = "unhandled"
    /\ UNCHANGED <<events, upstream, pc, outbox, result, replies, arrivals>>

Next ==
    \/ ReceiveWebhook
    \/ \E i \in Req : ResponseArrives(i)
    \/ \E i \in Req : ReplyCompletes(i)
    \/ RespondOK
    \/ HandlerRejects

Spec == Init /\ [][Next]_vars
SpecBatch == InitBatch /\ [][Next]_vars

\* ================================================================ claims
Settled(i) == result[i].completion # "none"
Up(i) == upstream[i]
IsFulfilled(o) == o.kind = "ok"
HasTextPayload(o) == IsFulfilled(o) /\ o.segs = PathLen /\ o.leaf.t = "string"
FieldsOf(i) == result[i].value

\* a "{" somewhere before a "}"
HasBraceBlock(toks) ==
    \E a \in 1..Len(toks) : \E b \in 1..Len(toks) :
        a < b /\ toks[a] = LBrace /\ toks[b] = RBrace
\* the slice from the first "{" to the last "}"
FirstToLast(toks) ==
    LET lo == CHOOSE a \in 1..Len(toks) :
                 toks[a] = LBrace /\ \A c \in 1..(a - 1) : toks[c] # LBrace
        hi == CHOOSE b \in 1..Len(toks) :
                 toks[b] = RBrace /\ \A c \in (b + 1)..Len(toks) : toks[c] # RBrace
    IN  SubSeq(toks, lo, hi)
NonEmptyString(val) == val.t = "string" /\ val.v # ""
\* the key k never reaches the parsed object
KeyMissing(o, k) == o.choice[k] = Absent \/ (o.shape = "renamed" /\ k = "brief")
WellFormedShape(o) == o.shape \in {"clean", "prose", "renamed"}

\* C1: every value makeSuggestions returns has casual, polite and brief
\* present, each a non-empty text string.
C1_AllFieldsNonEmptyStrings ==
    \A i \in Req : Settled(i) =>
        /\ result[i].completion = "return"
        /\ \A k \in Keys : NonEmptyString(FieldsOf(i)[k])

\* C2: makeSuggestions never raises: whatever the call, the extraction, the
\* brace match or the parse did, the invocation completes by returning.
C2_NeverRaises ==
    \A i \in Req :
        /\ Settled(i) => result[i].completion = "return"
        /\ (pc[i] \in {"replying", "done", "failed"}) => Settled(i)
        /\ (Settled(i) /\ result[i].threwAt # "none") => pc[i] # "awaiting"
C2_Witness ==
    \E i \in Req : \E j \in Req :
        /\ result[i].threwAt = "parse" /\ result[i].completion = "return"
        /\ result[j].completion = "return" /\ pc[j] = "replying"

\* C3: a failed call (network error, non-success status, malformed envelope)
\* never reaches the parse and yields the shared failure sentence in all
\* three fields.
MalformedEnvelope(o) == IsFulfilled(o) /\ (o.segs < PathLen \/ o.leaf.t \notin {"string"})
C3_CallFailureGivesSharedFallback ==
    \A i \in Req : Settled(i) =>
        /\ ~IsFulfilled(Up(i)) =>
              (FieldsOf(i) = FailureResult /\ result[i].threwAt = "post")
        /\ MalformedEnvelope(Up(i)) =>
              (FieldsOf(i) = FailureResult /\ result[i].threwAt \in {"match", "nomatch"})
        /\ (~IsFulfilled(Up(i)) \/ MalformedEnvelope(Up(i))) =>
              \A k \in Keys : FieldsOf(i)[k] = FailedRetry
C3_Witness ==
    \E i \in Req : Settled(i) /\ Up(i).kind = "http_error"
                   /\ FieldsOf(i)["polite"] = FailedRetry /\ result[i].threwAt = "post"

\* C4: a successful call whose text payload is absent or empty, or holds no
\* {...} block, yields the shared failure sentence in all three fields.
PayloadAbsent(o) ==
    IsFulfilled(o) /\ (o.segs < PathLen \/ o.leaf.t \in {"undefined", "null"})
PayloadEmpty(o) == HasTextPayload(o) /\ o.leaf.toks = <<>>
PayloadWithoutBlock(o) == HasTextPayload(o) /\ ~HasBraceBlock(o.leaf.toks)
C4_NoPayloadOrNoBlockGivesSharedFallback ==
    \A i \in Req :
        (Settled(i) /\ (PayloadAbsent(Up(i)) \/ PayloadEmpty(Up(i)) \/ PayloadWithoutBlock(Up(i))))
            => /\ FieldsOf(i) = FailureResult
               /\ \A k \in Keys : FieldsOf(i)[k] # PerFieldFallback(k)
C4_Witness ==
    \E i \in Req : Settled(i) /\ PayloadWithoutBlock(Up(i))
                   /\ (\E a \in 1..Len(Up(i).leaf.toks) : Up(i).leaf.toks[a] = LBrace)
                   /\ (\E b \in 1..Len(Up(i).leaf.toks) : Up(i).leaf.toks[b] = RBrace)
                   /\ FieldsOf(i) = FailureResult

\* C5: the block handed to the parser is the slice from the first "{" to the
\* last "}"; when that slice is not well-formed (two separate blocks, a
\* truncated object) all three fields get the shared failure sentence.
C5_GreedyBlockParseFailureGivesSharedFallback ==
    \A i \in Req :
        (Settled(i) /\ HasTextPayload(Up(i)) /\ HasBraceBlock(Up(i).leaf.toks)) =>
            /\ ~JSONParse(FirstToLast(Up(i).leaf.toks)).ok =>
                  (FieldsOf(i) = FailureResult /\ result[i].threwAt = "parse")
            /\ Up(i).shape \in {"two_blocks", "truncated"} => FieldsOf(i) = FailureResult
            /\ JSONParse(FirstToLast(Up(i).leaf.toks)).ok => result[i].threwAt = "none"
C5_Witness ==
    \E i \in Req : Settled(i) /\ Up(i).shape = "two_blocks"
                   /\ Up(i).choice["casual"] = "\"A\"" /\ Up(i).choice["brief"] = "\"B\""
                   /\ result[i].threwAt = "parse" /\ FieldsOf(i) = FailureResult

\* C6: a valid block with all three keys present and non-empty, alone or
\* inside surrounding prose, gives each field exactly the model's value.
AllThreeNonEmpty(o) ==
    /\ o.shape \in {"clean", "prose"}
    /\ \A k \in Keys : NonEmptyString(ChoiceValue(o.choice[k]))
C6_ValidBlockPassedThroughExactly ==
    \A i \in Req : (Settled(i) /\ AllThreeNonEmpty(Up(i))) =>
        /\ result[i].threwAt = "none"
        /\ \A k \in Keys : FieldsOf(i)[k] = ChoiceValue(Up(i).choice[k])
C6_Witness ==
    \E i \in Req : Settled(i) /\ AllThreeNonEmpty(Up(i)) /\ Up(i).shape = "prose"
                   /\ Up(i).choice["casual"] = "\"A\"" /\ Up(i).choice["polite"] = "\"B\""
                   /\ FieldsOf(i)["casual"] = JSString("A")
                   /\ FieldsOf(i)["polite"] = JSString("B")

\* C7: after a successful parse every field is resolved on its own: a missing
\* key gets its own per-field sentence (not the shared one), a present
\* non-empty string is the model's value for that same key.
C7_FieldsResolvedIndependently ==
    \A i \in Req : (Settled(i) /\ WellFormedShape(Up(i))) =>
        /\ result[i].threwAt = "none"
        /\ \A k \in Keys :
              /\ KeyMissing(Up(i), k) =>
                    (FieldsOf(i)[k] = PerFieldFallback(k) /\ FieldsOf(i)[k] # FailedRetry)
              /\ (~KeyMissing(Up(i), k) /\ NonEmptyString(ChoiceValue(Up(i).choice[k]))) =>
                    FieldsOf(i)[k] = ChoiceValue(Up(i).choice[k])
C7_Witness ==
    \E i \in Req : Settled(i) /\ Up(i).shape = "clean"
                   /\ Up(i).choice["casual"] = "\"A\"" /\ Up(i).choice["polite"] = Absent
                   /\ Up(i).choice["brief"] = "\"B\""
                   /\ FieldsOf(i) = [casual |-> JSString("A"), polite |-> FallbackPolite,
                                     brief |-> JSString("B")]

\* C8: after a successful parse a field whose value is empty or not a string
\* is replaced with the per-field sentence of its style.
C8_EmptyOrNonStringReplaced ==
    \A i \in Req : (Settled(i) /\ Up(i).shape \in {"clean", "prose"}) =>
        \A k \in Keys :
            (Up(i).choice[k] # Absent /\ ~NonEmptyString(ChoiceValue(Up(i).choice[k])))
                => FieldsOf(i)[k] = PerFieldFallback(k)

\* C9: an invocation of makeSuggestions issues at most one call to the
\* endpoint on every path; nothing is retried.
C9_AtMostOneCall ==
    \A i \in Req :
        /\ Len(outbox[i]) <= 1
        /\ Settled(i) => Len(outbox[i]) = 1
C9_Witness ==
    \E i \in Req : Settled(i) /\ ~IsFulfilled(Up(i)) /\ result[i].threwAt = "post"
                   /\ Len(outbox[i]) = 1 /\ pc[i] = "done"

\* C10: in a batch resolved concurrently, under every arrival order, the
\* prompt of a request carries its own message and its result is the one its
\* own model response determines, whatever the other requests received.
ExpectedAlone(o) ==
    IF WellFormedShape(o)
    THEN [k \in Keys |->
            IF ~KeyMissing(o, k) /\ Truthy(ChoiceValue(o.choice[k]))
            THEN ChoiceValue(o.choice[k]) ELSE PerFieldFallback(k)]
    ELSE [k \in Keys |-> FailedRetry]
C10_ResultDependsOnOwnResponseOnly ==
    \A i \in Req :
        /\ (IsTextEvent(events[i]) /\ http # "listening")
              => outbox[i] = <<BuildPrompt(events[i].text)>>
        /\ ~IsTextEvent(events[i]) => (outbox[i] = <<>> /\ ~Settled(i))
        /\ Settled(i) => \A k \in Keys : FieldsOf(i)[k] = ExpectedAlone(Up(i))[k]
C10_Witness ==
    /\ Len(arrivals) >= 2 /\ arrivals[1] = 2 /\ arrivals[2] = 1
    /\ result[1].threwAt = "none" /\ result[2].threwAt = "post"
    /\ events[1].text # events[2].text
    /\ FieldsOf(1)["casual"] = JSString("A") /\ FieldsOf(2)["casual"] = FailedRetry

====
